---- MODULE Spec2Model ----
(***************************************************************************)
(* A model of equadratures.poly.Poly (src/equadratures/poly.py): the       *)
(* polynomial object that resolves a sampling configuration, builds a      *)
(* design (points, weights, design matrix), attaches model evaluations,    *)
(* solves for the expansion coefficients and evaluates the surrogate.      *)
(*                                                                         *)
(* Encoding.                                                               *)
(*  - A Python attribute that is None, or that was never assigned, is the  *)
(*    empty tuple <<>>; a present value v is <<v>>.                        *)
(*  - An array of points is a sequence of coordinate tuples; a column of   *)
(*    outputs is [vals |-> sequence, cols |-> number of columns].          *)
(*  - Weights are rationals <<num, den>> in lowest terms.                  *)
(*  - sqrt(w) * x is kept symbolically as [w |-> w, x |-> x].              *)
(*  - A raised exception leaves every assignment made before it in place,  *)
(*    as in Python: each method is an operator from the object to          *)
(*    [self |-> the object afterwards, err |-> whether it raised, ...].    *)
(*  - A method is a chain of steps; each step is an operator that takes    *)
(*    what the lines before it have computed and carries on from there.    *)
(***************************************************************************)
EXTENDS Integers, Sequences, FiniteSets, TLC

\* ------------------------------------------------------------------ bounds
MaxOrder == 2
MaxRows == 4
MaxCoef == 1
MaxX == 1

\* np.nan among the model evaluations: a number no evaluation of the model takes
NaN == -1000

\* ----------------------------------------------------------------- options
None == <<>>
Some(v) == <<v>>
IsNone(o) == o = <<>>
Val(o) == o[1]

\* --------------------------------------------------------------- rationals
RECURSIVE GCD(_, _)
GCD(a, b) == IF b = 0 THEN a ELSE GCD(b, a % b)
Abs(a) == IF a < 0 THEN 0 - a ELSE a
\* n/d with the common factor g taken out and the sign on the numerator
Reduced(n, d, g) ==
    IF d < 0 THEN <<(0 - n) \div g, (0 - d) \div g>> ELSE <<n \div g, d \div g>>
Rat(n, d) == IF n = 0 THEN <<0, 1>> ELSE Reduced(n, d, GCD(Abs(n), Abs(d)))
RatAdd(p, q) == Rat(p[1] * q[2] + q[1] * p[2], p[2] * q[2])
RatMul(p, q) == Rat(p[1] * q[1], p[2] * q[2])
RatDiv(p, q) == Rat(p[1] * q[2], p[2] * q[1])
RECURSIVE RatSum(_)
RatSum(s) == IF s = <<>> THEN <<0, 1>> ELSE RatAdd(Head(s), RatSum(Tail(s)))

\* ------------------------------------------------------------ sequences
RECURSIVE SumSeq(_)
SumSeq(s) == IF s = <<>> THEN 0 ELSE Head(s) + SumSeq(Tail(s))
Max(a, b) == IF a > b THEN a ELSE b
Min(a, b) == IF a < b THEN a ELSE b
RECURSIVE MaxSeq(_)
MaxSeq(s) == IF Len(s) = 1 THEN s[1] ELSE Max(s[1], MaxSeq(Tail(s)))
RECURSIVE Concat(_)
Concat(ss) == IF ss = <<>> THEN <<>> ELSE Head(ss) \o Concat(Tail(ss))
Range(s) == {s[i] : i \in 1..Len(s)}
\* numpy fancy indexing a[z] with 0-based indices z
Take(a, z) == [i \in 1..Len(z) |-> a[z[i] + 1]]
\* the slice a[0:n]
Slice(a, n) == SubSeq(a, 1, Min(n, Len(a)))
\* np.delete(a, idx, axis=0) with 0-based row indices idx
RECURSIVE DeleteFrom(_, _, _)
DeleteFrom(a, idx, i) ==
    IF i > Len(a) THEN <<>>
    ELSE (IF (i - 1) \in idx THEN <<>> ELSE <<a[i]>>) \o DeleteFrom(a, idx, i + 1)
\* a delete that takes out the first of the rows only
Delete_OnlyFirst(a, idx) ==
    DeleteFrom(a, {CHOOSE i \in idx : \A j \in idx : i <= j}, 1)
Delete(a, idx) == DeleteFrom(a, idx, 1)
\* lexicographic order on tuples of equal length
RECURSIVE LexLess(_, _)
LexLess(a, b) ==
    IF a = <<>> THEN FALSE
    ELSE IF a[1] < b[1] THEN TRUE
    ELSE IF a[1] > b[1] THEN FALSE
    ELSE LexLess(Tail(a), Tail(b))
MinRow(S) == CHOOSE a \in S : \A b \in S \ {a} : LexLess(a, b)
\* the rows of a set in lexicographic order (np.unique(..., axis=0))
RECURSIVE SortRows(_)
SortFrom(S, m) == <<m>> \o SortRows(S \ {m})
SortRows(S) == IF S = {} THEN <<>> ELSE SortFrom(S, MinRow(S))

\* ------------------------------------------------- Basis (external class)
\* the exponent tuples rest, each behind every first exponent 0..o
Prepend(o, rest) ==
    Concat([i \in 1..(o + 1) |-> [j \in 1..Len(rest) |-> <<i - 1>> \o rest[j]]])
\* every exponent tuple e with 0 <= e[i] <= orders[i], in lexicographic order
RECURSIVE TensorSeq(_)
TensorSeq(orders) ==
    IF orders = <<>> THEN << <<>> >> ELSE Prepend(orders[1], TensorSeq(Tail(orders)))
TotalOrderSeq(orders) ==
    LET Keep(e) == SumSeq(e) <= MaxSeq(orders) IN SelectSeq(TensorSeq(orders), Keep)
\* the tensor sub-grids of the level-1 combination technique in d dimensions:
\* one sub-grid of order 1 along each dimension (weight +1) and the order-0
\* sub-grid (weight -(d-1))
UnitOrders(d, i) == [k \in 1..d |-> IF k = i THEN 1 ELSE 0]
SparseOrders(d) == [i \in 1..(d + 1) |-> IF i <= d THEN UnitOrders(d, i) ELSE [k \in 1..d |-> 0]]
SparseFactors(d) == [i \in 1..(d + 1) |-> IF i <= d THEN 1 ELSE 1 - d]
\* the index sets of the sub-grids one after the other, shared rows repeated
SparseSeq(d) == Concat([i \in 1..(d + 1) |-> TensorSeq(SparseOrders(d)[i])])
BasisElements(basis_type, orders) ==
    IF basis_type = "tensor-grid" THEN TensorSeq(orders)
    ELSE IF basis_type = "sparse-grid" THEN SparseSeq(Len(orders))
    ELSE TotalOrderSeq(orders)
\* the basis with el for its elements, and its cardinality with them
Basis_with(basis, el) == [basis EXCEPT !.elements = el, !.cardinality = Len(el)]
\* Basis.set_orders
Basis_set_orders(basis, orders) ==
    [Basis_with(basis, BasisElements(basis.basis_type, orders)) EXCEPT !.orders = orders]
\* Basis.prune(number_of_elements_to_delete): keeps the leading rows, and
\* refuses to delete every element
Basis_prune(basis, k) ==
    IF k >= basis.cardinality THEN [err |-> TRUE, basis |-> basis]
    ELSE [err |-> FALSE,
          basis |-> Basis_with(basis, Slice(basis.elements, basis.cardinality - k))]

\* --------------------------------------------- Parameter (external class)
RECURSIVE Pow(_, _)
Pow(x, k) == IF k = 0 THEN 1 ELSE x * Pow(x, k - 1)
\* Parameter._get_orthogonal_polynomial(points, order): the table of the family's
\* values, row k+1 the order-k polynomial at every point (x is the column of
\* scalar coordinates).  The family stands as the monomials x^k.
\* "order" is kept beside the table: it is the order that was requested.
Parameter_get_orthogonal_polynomial(parameter, x, order) ==
    [order |-> order,
     p |-> [k \in 1..(order + 1) |-> [j \in 1..Len(x) |-> Pow(x[j], k - 1)]],
     dp |-> [k \in 1..(order + 1) |-> [j \in 1..Len(x) |->
                IF k < 2 THEN 0 ELSE (k - 1) * Pow(x[j], k - 2)]],
     d2p |-> [k \in 1..(order + 1) |-> [j \in 1..Len(x) |->
                IF k < 3 THEN 0 ELSE (k - 1) * (k - 2) * Pow(x[j], k - 3)]]]

\* ------------------------------------------------------------- get_poly
Column(stack, i) == [j \in 1..Len(stack) |-> stack[j][i]]
BasisColumn(basis, k) == [r \in 1..Len(basis) |-> basis[r][k]]
\* for every dimension i, the table of parameter i at column i of the points, up
\* to the largest exponent the basis has in that dimension
Tables(self, stack_of_points, basis) ==
    [i \in 1..Len(basis[1]) |->
        Parameter_get_orthogonal_polynomial(self.parameters[i],
            Column(stack_of_points, i), MaxSeq(BasisColumn(basis, i)))]
RECURSIVE ProdOver(_, _, _, _)
\* the product over the dimensions k..1 of p[k][basis_row[k]] at point j
ProdOver(t, row, j, k) ==
    IF k = 0 THEN 1 ELSE t[k].p[row[k] + 1][j] * ProdOver(t, row, j, k - 1)
\* lines 614-616: the univariate branch returns the table as it is
PolyUnivariate(t) == [err |-> FALSE, P |-> t.p, requested |-> <<t.order>>]
\* lines 623-628
PolyMultivariate(basis, no_of_points, t) ==
    [err |-> FALSE,
     P |-> [r \in 1..Len(basis) |->
               [j \in 1..no_of_points |-> ProdOver(t, basis[r], j, Len(t))]],
     requested |-> [i \in 1..Len(t) |-> t[i].order]]
\* lines 605-628, for the multi-index set basis
get_poly_on(self, stack_of_points, basis) ==
    IF Len(basis) = 0
    THEN [err |-> TRUE, P |-> <<>>, requested |-> <<>>]   \* np.max of an empty array
    ELSE IF Len(basis[1]) = 1
    THEN PolyUnivariate(Tables(self, stack_of_points, basis)[1])
    ELSE PolyMultivariate(basis, Len(stack_of_points), Tables(self, stack_of_points, basis))
get_poly(self, stack_of_points, custom_multi_index) ==
    get_poly_on(self, stack_of_points,
                IF IsNone(custom_multi_index) THEN self.basis.elements
                ELSE Val(custom_multi_index))

\* W * P.T with W = diag(sqrt(weights)): one row per point, one column per row of P
WeightedTranspose(weights, P) ==
    [i \in 1..Len(weights) |-> [j \in 1..Len(P) |-> [w |-> weights[i], x |-> P[j][i]]]]
\* np.dot(W, y) for a column y
WeightedColumn(weights, y) == [i \in 1..Len(weights) |-> [w |-> weights[i], x |-> y[i]]]
Rows(A) == Len(A)
Cols(A) == IF A = <<>> THEN 0 ELSE Len(A[1])

\* ---------------------------------------- Quadrature (external generator)
RECURSIVE ProdRat(_)
ProdRat(s) == IF s = <<>> THEN <<1, 1>> ELSE RatMul(Head(s), ProdRat(Tail(s)))
\* the weight of node i (0..o) of the (o+1)-point rule of one dimension
NodeWeight(o, i) == Rat(i + 1, ((o + 1) * (o + 2)) \div 2)
TensorPoints(orders) == TensorSeq(orders)
WeightsAt(orders, pts) ==
    [j \in 1..Len(pts) |->
        ProdRat([k \in 1..Len(orders) |-> NodeWeight(orders[k], pts[j][k])])]
TensorWeights(orders) == WeightsAt(orders, TensorPoints(orders))
Reverse(s) == [i \in 1..Len(s) |-> s[Len(s) + 1 - i]]
EqualWeights(n) == [i \in 1..n |-> Rat(1, n)]
DedupAdd(front, x) == IF x \in Range(front) THEN front ELSE Append(front, x)
\* the rows of s, each once, in order of first occurrence
RECURSIVE Dedup(_)
Dedup(s) ==
    IF s = <<>> THEN <<>> ELSE DedupAdd(Dedup(SubSeq(s, 1, Len(s) - 1)), s[Len(s)])
\* one tensor record of the sparse grid
TensorOf(o) ==
    [points |-> TensorPoints(o), weights |-> TensorWeights(o),
     basis |-> [elements |-> TensorSeq(o)]]
SparseTensor(d, i) == TensorOf(SparseOrders(d)[i])
SparseList(d) == [i \in 1..(d + 1) |-> SparseTensor(d, i)]
\* the weight a tensor gives to point x, times the tensor's combination factor
TensorShare(t, factor, x) ==
    RatSum([j \in 1..Len(t.points) |->
               IF t.points[j] = x THEN RatMul(<<factor, 1>>, t.weights[j]) ELSE <<0, 1>>])
SparsePoints(list) == Dedup(Concat([i \in 1..Len(list) |-> list[i].points]))
SparseWeights(list, factors, pts) ==
    [j \in 1..Len(pts) |->
        RatSum([i \in 1..Len(list) |-> TensorShare(list[i], factors[i], pts[j])])]
\* a generator with one grid
Flat(mesh, points, weights) ==
    [mesh |-> mesh, points |-> points, weights |-> weights,
     list |-> <<>>, sparse_weights |-> <<>>]
SparseGridOn(mesh, list, factors, pts) ==
    [mesh |-> mesh, points |-> pts, weights |-> SparseWeights(list, factors, pts),
     list |-> list, sparse_weights |-> factors]
SparseGrid(mesh, list, factors) == SparseGridOn(mesh, list, factors, SparsePoints(list))
\* Quadrature(parameters, basis, points, mesh): the generator object, or err when
\* the mesh is not one it knows or a user-defined mesh comes without points
Quadrature(parameters, basis, points, mesh) ==
    IF mesh = "tensor-grid"
    THEN [err |-> FALSE,
          quadrature |-> Flat(mesh, TensorPoints(basis.orders), TensorWeights(basis.orders))]
    ELSE IF mesh \in {"monte-carlo", "induced"}
    THEN [err |-> FALSE,
          quadrature |-> Flat(mesh, Reverse(TensorPoints(basis.orders)),
                              EqualWeights(Len(TensorPoints(basis.orders))))]
    ELSE IF mesh = "user-defined"
    THEN IF IsNone(points) \/ Val(points) = <<>>
         THEN [err |-> TRUE, quadrature |-> Flat(mesh, <<>>, <<>>)]
         ELSE [err |-> FALSE,
               quadrature |-> Flat(mesh, Val(points), EqualWeights(Len(Val(points))))]
    ELSE IF mesh = "sparse-grid"
    THEN [err |-> FALSE,
          quadrature |-> SparseGrid(mesh, SparseList(Len(parameters)),
                                    SparseFactors(Len(parameters)))]
    ELSE [err |-> TRUE, quadrature |-> Flat(mesh, <<>>, <<>>)]

\* ------------------------------------- Subsampling (external selector)
\* the selected 0-based row indices: m distinct rows of A, here the trailing
\* rows taken from the last one upwards; err outside 1 <= m <= rows
Subsampling_select(name, A, m) ==
    IF m < 1 \/ m > Rows(A) THEN [err |-> TRUE, z |-> <<>>]
    ELSE [err |-> FALSE, z |-> [i \in 1..m |-> Rows(A) - i]]

\* ------------------------------------------------ Solver (external)
RECURSIVE ColDot(_, _, _, _)
ColDot(A, b, j, i) ==
    IF i = 0 THEN 0 ELSE A[i][j].x * b[i].x + ColDot(A, b, j, i - 1)
\* solver(A, b): one coefficient per column of A
Solver_solve(A, b) ==
    IF Len(b) # Rows(A) THEN [err |-> TRUE, coefficients |-> <<>>]
    ELSE [err |-> FALSE,
          coefficients |-> [j \in 1..Cols(A) |-> ColDot(A, b, j, Rows(A))]]
\* solver(A, b, C, d) of the gradient-augmented method
Solver_solve_grad(A, b, C, d) ==
    IF Len(b) # Rows(A) \/ Len(d) # Rows(C) \/ Cols(C) # Cols(A)
    THEN [err |-> TRUE, coefficients |-> <<>>]
    ELSE [err |-> FALSE,
          coefficients |-> [j \in 1..Cols(A) |->
                               ColDot(A, b, j, Rows(A)) + ColDot(C, d, j, Rows(C))]]

\* int(np.round(q)) of a rational q >= 0: the nearest integer, a tie to the even one
Round(q) ==
    LET fl == q[1] \div q[2]
        twice == 2 * (q[1] % q[2])
    IN  IF twice < q[2] THEN fl
        ELSE IF twice > q[2] THEN fl + 1
        ELSE IF fl % 2 = 0 THEN fl ELSE fl + 1

\* ------------------------------------------------------------------ Poly
\* the faults an external collaborator can raise during one call
Faults == {"none", "generator-construct", "generator-get", "selector"}

_set_subsampling_algorithm(self) ==
    [self EXCEPT !.subsampling_algorithm_function = Some(self.subsampling_algorithm_name)]
_set_solver(self) ==
    [self EXCEPT !.solver = Some(Val(self.method))]

\* the selected weights kept as the generator gave them
Normalised_Unscaled(w) == w

\* quadrature_weights[z] / np.sum(quadrature_weights[z])
Normalised(w) == [i \in 1..Len(w) |-> RatDiv(w[i], RatSum(w))]

\* lines 212-214: A from the design just stored
Stored(s2, quadrature_weights, Pr) ==
    IF Pr.err THEN [self |-> s2, err |-> TRUE]
    ELSE [self |-> [s2 EXCEPT !.A = Some(WeightedTranspose(quadrature_weights, Pr.P))],
          err |-> FALSE]
\* lines 206-207: the rows the selector answered with
Retained(s2, fault, quadrature_points, quadrature_weights, sel) ==
    IF sel.err \/ fault = "selector" THEN [self |-> s2, err |-> TRUE]
    ELSE [self |-> [s2 EXCEPT
                       !._quadrature_points = Some(Take(quadrature_points, sel.z)),
                       !._quadrature_weights =
                           Some(Normalised(Take(quadrature_weights, sel.z)))],
          err |-> FALSE]
\* lines 202-205: A of the generated design is stored, then the selector runs
Subsampled(s1, fault, quadrature_points, quadrature_weights, A) ==
    Retained([s1 EXCEPT !.A = Some(A)], fault, quadrature_points, quadrature_weights,
             Subsampling_select(Val(s1.subsampling_algorithm_function), A,
                                Round(RatMul(s1.sampling_ratio, <<Cols(A), 1>>))))
\* lines 199-201
Weighted(s1, fault, quadrature_points, quadrature_weights, Pr) ==
    IF Pr.err THEN [self |-> s1, err |-> TRUE]
    ELSE Subsampled(s1, fault, quadrature_points, quadrature_weights,
                    WeightedTranspose(quadrature_weights, Pr.P))
\* lines 198-214
Designed(s1, fault, quadrature_points, quadrature_weights) ==
    IF ~IsNone(s1.subsampling_algorithm_name)
    THEN Weighted(s1, fault, quadrature_points, quadrature_weights,
                  get_poly(s1, quadrature_points, None))
    ELSE Stored([s1 EXCEPT !._quadrature_points = Some(quadrature_points),
                           !._quadrature_weights = Some(quadrature_weights)],
                quadrature_weights, get_poly(s1, quadrature_points, None))
\* lines 195-197: self.quadrature is assigned, then asked for its points
Generated(self, fault, made) ==
    IF made.err \/ fault = "generator-construct" THEN [self |-> self, err |-> TRUE]
    ELSE IF fault = "generator-get"
    THEN [self |-> [self EXCEPT !.quadrature = Some(made.quadrature)], err |-> TRUE]
    ELSE Designed([self EXCEPT !.quadrature = Some(made.quadrature)], fault,
                  made.quadrature.points, made.quadrature.weights)
_set_points_and_weights(self, fault) ==
    IF IsNone(self.mesh) THEN [self |-> self, err |-> TRUE]
    ELSE Generated(self, fault,
                   Quadrature(self.parameters, self.basis, self.inputs, Val(self.mesh)))

\* the mesh a method stands for (lines 89-99); a method that is none of these
\* leaves self.mesh unassigned
DefaultMesh(method, basis) ==
    IF method = "numerical-integration" \/ method = "integration" THEN Some(basis.basis_type)
    ELSE IF method = "least-squares" THEN Some("tensor-grid")
    ELSE IF method = "least-squares-with-gradients" THEN Some("tensor-grid")
    ELSE IF method = "compressed-sensing" \/ method = "compressive-sensing" THEN Some("monte-carlo")
    ELSE IF method = "minimum-norm" THEN Some("monte-carlo")
    ELSE None

\* the overrides with the mesh key read last
ApplySamplingArgs_MeshLast(self, sampling_args) ==
    IF IsNone(sampling_args) THEN self
    ELSE
    LET a == Val(sampling_args)
        s1 == IF ~IsNone(a.sampling_ratio)
              THEN [self EXCEPT !.sampling_ratio = Val(a.sampling_ratio)] ELSE self
        s2 == IF ~IsNone(a.subsampling_algorithm)
              THEN [s1 EXCEPT !.subsampling_algorithm_name = a.subsampling_algorithm] ELSE s1
        s3 == IF ~IsNone(a.sample_points)
              THEN [s2 EXCEPT !.inputs = a.sample_points, !.mesh = Some("user-defined")] ELSE s2
        s4 == IF ~IsNone(a.sample_outputs)
              THEN [s3 EXCEPT !.outputs = a.sample_outputs] ELSE s3
        s5 == IF ~IsNone(a.mesh) THEN [s4 EXCEPT !.mesh = a.mesh] ELSE s4
    IN  s5

\* the overrides of lines 101-108, in the order the code applies them
ApplySamplingArgs(self, sampling_args) ==
    IF IsNone(sampling_args) THEN self
    ELSE
    LET a == Val(sampling_args)
        s1 == IF ~IsNone(a.mesh) THEN [self EXCEPT !.mesh = a.mesh] ELSE self
        s2 == IF ~IsNone(a.sampling_ratio)
              THEN [s1 EXCEPT !.sampling_ratio = Val(a.sampling_ratio)] ELSE s1
        s3 == IF ~IsNone(a.subsampling_algorithm)
              THEN [s2 EXCEPT !.subsampling_algorithm_name = a.subsampling_algorithm] ELSE s2
        s4 == IF ~IsNone(a.sample_points)
              THEN [s3 EXCEPT !.inputs = a.sample_points, !.mesh = Some("user-defined")] ELSE s3
        s5 == IF ~IsNone(a.sample_outputs)
              THEN [s4 EXCEPT !.outputs = a.sample_outputs] ELSE s4
    IN  s5

\* Poly.__init__, lines 68-87: the attributes every object starts with
Defaults(parameters, basis0, method, sampling_args) ==
    LET orders == [i \in 1..Len(parameters) |-> parameters[i].order]
    IN  [parameters |-> parameters,
         basis |-> IF basis0.orders = <<>> THEN Basis_set_orders(basis0, orders) ELSE basis0,
         method |-> method,
         sampling_args |-> sampling_args,
         solver_args |-> None,
         dimensions |-> Len(parameters),
         orders |-> orders,
         gradient_flag |-> 0,
         inputs |-> None,
         outputs |-> None,
         subsampling_algorithm_name |-> None,
         sampling_ratio |-> <<1, 1>>,
         statistics_object |-> None,
         parameters_order |-> orders,
         highest_order |-> MaxSeq(orders),
         \* not assigned yet
         mesh |-> None,
         solver |-> None,
         subsampling_algorithm_function |-> None,
         quadrature |-> None,
         _quadrature_points |-> None,
         _quadrature_weights |-> None,
         A |-> None,
         _model_evaluations |-> None,
         _gradient_evaluations |-> None,
         coefficients |-> None]

\* lines 89-99: the mesh and the gradient flag the method stands for
MethodDefaults(s0) ==
    [s0 EXCEPT !.mesh = DefaultMesh(Val(s0.method), s0.basis),
               !.gradient_flag =
                   IF Val(s0.method) = "least-squares-with-gradients" THEN 1 ELSE 0]

\* a constructor that reads sampling_args whether or not a method is given
Configure_ArgsWithoutMethod(s0, fault) ==
    IF IsNone(s0.method)
    THEN [self |-> ApplySamplingArgs(s0, s0.sampling_args), err |-> FALSE]
    ELSE _set_points_and_weights(
             _set_subsampling_algorithm(
                 _set_solver(ApplySamplingArgs(MethodDefaults(s0), s0.sampling_args))),
             fault)

\* lines 88-113: nothing more without a method; else the configuration, the
\* solver, the subsampling function and the design
Configure(s0, fault) ==
    IF IsNone(s0.method) THEN [self |-> s0, err |-> FALSE]
    ELSE _set_points_and_weights(
             _set_subsampling_algorithm(
                 _set_solver(ApplySamplingArgs(MethodDefaults(s0), s0.sampling_args))),
             fault)

\* Poly.__init__
Poly_init(parameters, basis0, method, sampling_args, fault) ==
    Configure(Defaults(parameters, basis0, method, sampling_args), fault)

\* ------------------------------------------------------- get_poly_grad
RECURSIVE GradProd(_, _, _, _, _)
\* the product over the dimensions k..1 with dimension v's factor its derivative
GradProd(t, row, j, v, k) ==
    IF k = 0 THEN 1
    ELSE (IF k = v THEN t[k].dp[row[k] + 1][j] ELSE t[k].p[row[k] + 1][j])
         * GradProd(t, row, j, v, k - 1)
\* lines 658-660: the univariate branch returns the derivative table itself
GradUnivariate(t) ==
    [err |-> FALSE, list |-> FALSE, R |-> t.dp, requested |-> <<t.order>>]
\* lines 668-683: a list with one matrix per dimension
GradMultivariate(basis, no_of_points, t, dims) ==
    [err |-> FALSE, list |-> TRUE,
     R |-> [v \in 1..Len(t) |->
               [r \in 1..Len(basis) |-> [j \in 1..no_of_points |->
                   IF (v - 1) \in dims THEN GradProd(t, basis[r], j, v, Len(t)) ELSE 0]]],
     requested |-> [i \in 1..Len(t) |-> t[i].order]]
\* dim_index: None for every dimension, or the set of 0-based dimensions asked for
get_poly_grad(self, stack_of_points, dim_index) ==
    IF Len(self.basis.elements) = 0
    THEN [err |-> TRUE, list |-> FALSE, R |-> <<>>, requested |-> <<>>]
    ELSE IF Len(self.basis.elements[1]) = 1
    THEN GradUnivariate(Tables(self, stack_of_points, self.basis.elements)[1])
    ELSE GradMultivariate(self.basis.elements, Len(stack_of_points),
                          Tables(self, stack_of_points, self.basis.elements),
                          IF IsNone(dim_index) THEN 0..(Len(self.basis.elements[1]) - 1)
                          ELSE Val(dim_index))

\* cell2matrix(G, W): the blocks W * G[i].T stacked row-wise, dimension by dimension.
\* A bare table (the univariate get_poly_grad) has one-dimensional rows, and
\* "rows, cols = C0.shape" raises.
cell2matrix(G, weights) ==
    IF ~G.list THEN [err |-> TRUE, C |-> <<>>]
    ELSE LET dimensions == Len(G.R)
             rows == Len(G.R[1][1])
             cols == Len(G.R[1])
         IN  IF rows # Len(weights) THEN [err |-> TRUE, C |-> <<>>]
             ELSE [err |-> FALSE,
                   C |-> [r \in 1..(dimensions * rows) |->
                            [k \in 1..cols |->
                                [w |-> weights[((r - 1) % rows) + 1],
                                 x |-> G.R[((r - 1) \div rows) + 1][k][((r - 1) % rows) + 1]]]]]

\* ------------------------------------------------ the model callables
ModelFns == {"nan_at_zero"}
ApplyModel(f, x) == IF x[1] = 0 THEN NaN ELSE 1 + x[1]
\* evaluate_model(points, function)
evaluate_model(points, function) ==
    [vals |-> [i \in 1..Len(points) |-> ApplyModel(function, points[i])], cols |-> 1]
\* the gradient callable: the j-th partial at x
ApplyGrad(f, x, j) == x[j] + j
\* evaluate_model_gradients(points, fungrad, 'matrix')
evaluate_model_gradients(points, fungrad) ==
    [i \in 1..Len(points) |-> [j \in 1..Len(points[1]) |-> ApplyGrad(fungrad, points[i], j)]]

\* ------------------------------------------- what one call leaves behind
\* solves: solver invocations; assigns: assignments to self.coefficients;
\* recoveries: nested set_model calls made by the NaN recovery; nan: what the
\* recovery saw (n evaluations, k of them NaN, the basis cardinality before it)
\* and how far it got; local: per tensor sub-grid, what the sparse-grid path
\* solved.
EmptyLog == [solves |-> 0, assigns |-> 0, recoveries |-> 0, nan |-> None, local |-> <<>>]
Raise(self, log) == [self |-> self, err |-> TRUE, log |-> log]
Return(self, log) == [self |-> self, err |-> FALSE, log |-> log]

\* np.argwhere(np.isnan(y))[:, 0], as a set of 0-based rows
NanRows(y) == {i - 1 : i \in {r \in 1..Len(y.vals) : y.vals[r] = NaN}}

\* ------------------------------ _set_coefficients, lines 396-423 (sparse grid)
Occurrences(s, u) == Cardinality({i \in 1..Len(s) : s[i] = u})
\* the positions i of the sorted unique rows U of stacked with counts[i] == 2
SharedIn(stacked, U) ==
    LET Hit(i) == Occurrences(stacked, U[i + 1]) = 2
    IN  SelectSeq([i \in 1..Len(U) |-> i - 1], Hit)
\* line 405-406: np.unique(vstack([tensor.points, points]), axis=0) and its counts
SharedIndices(tensor_points, points) ==
    SharedIn(tensor_points \o points, SortRows(Range(tensor_points \o points)))
LocalFailed(indices) ==
    [err |-> TRUE, elements |-> <<>>, indices |-> indices, rhs |-> <<>>,
     solved |-> <<>>, coefficients |-> <<>>]
\* lines 409-410: the local coefficients, and the same scaled by the sub-grid's weight
LocalSolved(tensor, weight, indices, rhs, sol) ==
    [err |-> sol.err,
     elements |-> tensor.basis.elements,
     indices |-> indices,
     rhs |-> rhs,
     solved |-> sol.coefficients,
     coefficients |-> [j \in 1..Len(sol.coefficients) |-> sol.coefficients[j] * weight]]
\* lines 407-409
LocalRhs(tensor, weight, A, indices, rhs) ==
    LocalSolved(tensor, weight, indices, rhs,
                Solver_solve(A, WeightedColumn(tensor.weights, rhs)))
\* lines 402-407
LocalSystem(tensor, weight, y, Pr, indices) ==
    IF Pr.err \/ (\E i \in Range(indices) : i >= Len(y))
       \/ Len(indices) # Len(tensor.weights)
    THEN LocalFailed(indices)
    ELSE LocalRhs(tensor, weight, WeightedTranspose(tensor.weights, Pr.P), indices,
                  Take(y, indices))
\* one pass of the loop over self.quadrature.list, for tensor number c (1-based)
SparseLocalOn(self, tensor, weight) ==
    LocalSystem(tensor, weight, Val(self._model_evaluations).vals,
                get_poly(self, tensor.points, Some(tensor.basis.elements)),
                SharedIndices(tensor.points, Val(self._quadrature_points)))
SparseLocal(self, c) ==
    SparseLocalOn(self, Val(self.quadrature).list[c], Val(self.quadrature).sparse_weights[c])
\* the coefficient of the first row whose multi-index equals u
SumFirstMatching(multindices, coefficients, u, j) ==
    LET hits == {i \in 1..j : multindices[i] = u}
    IN  IF hits = {} THEN 0
        ELSE coefficients[CHOOSE i \in hits : \A h \in hits : i <= h]
\* the sum of the coefficients whose multi-index equals u
RECURSIVE SumMatching(_, _, _, _)
SumMatching(multindices, coefficients, u, j) ==
    IF j = 0 THEN 0
    ELSE (IF multindices[j] = u THEN coefficients[j] ELSE 0)
         + SumMatching(multindices, coefficients, u, j - 1)
\* lines 417-423
Combined(self, log, local, multindices, coefficients, unique_indices) ==
    Return([self EXCEPT
               !.coefficients =
                   Some([i \in 1..Len(unique_indices) |->
                            SumMatching(multindices, coefficients, unique_indices[i],
                                        Len(multindices))]),
               !.basis.elements = unique_indices],
           [log EXCEPT !.solves = @ + Len(local), !.assigns = @ + 1, !.local = local])
\* line 416
Stacked(self, log, local, multindices, coefficients) ==
    Combined(self, log, local, multindices, coefficients, SortRows(Range(multindices)))
\* lines 411-415: each pass stacks its rows on top of the ones before it
Combine(self, log, local) ==
    IF Len(local) = 0 \/ \E c \in 1..Len(local) : local[c].err THEN Raise(self, log)
    ELSE Stacked(self, log, local,
                 Concat([c \in 1..Len(local) |-> local[Len(local) + 1 - c].elements]),
                 Concat([c \in 1..Len(local) |-> local[Len(local) + 1 - c].coefficients]))
SolveSparse(self, log) ==
    IF IsNone(self.quadrature) \/ IsNone(self._quadrature_points) THEN Raise(self, log)
    ELSE Combine(self, log,
                 [c \in 1..Len(Val(self.quadrature).list) |-> SparseLocal(self, c)])

\* ------------------------------ _set_coefficients, lines 424-442 (one system)
\* lines 440, 442: the solver's answer becomes self.coefficients
Solved(self, log, sol) ==
    IF sol.err THEN Raise(self, [log EXCEPT !.solves = @ + 1])
    ELSE Return([self EXCEPT !.coefficients = Some(sol.coefficients)],
                [log EXCEPT !.solves = @ + 1, !.assigns = @ + 1])
\* lines 430-431
GradientMatrix(weights, dP) ==
    IF dP.err THEN [err |-> TRUE, C |-> <<>>] ELSE cell2matrix(dP, weights)
\* lines 432-440
WithGradients(self, log, A, b, cm) ==
    IF cm.err \/ IsNone(self._gradient_evaluations) THEN Raise(self, log)
    ELSE Solved(self, log, Solver_solve_grad(A, b, cm.C, Val(self._gradient_evaluations)))
\* lines 425-442
System(self, log, points, weights, y, Pr) ==
    IF Pr.err \/ Len(y) # Len(weights) THEN Raise(self, log)
    ELSE IF self.gradient_flag = 1
    THEN WithGradients(self, log, WeightedTranspose(weights, Pr.P),
                       WeightedColumn(weights, y),
                       GradientMatrix(weights, get_poly_grad(self, points, None)))
    ELSE Solved(self, log, Solver_solve(WeightedTranspose(weights, Pr.P),
                                        WeightedColumn(weights, y)))
SolveStandard(self, log) ==
    IF IsNone(self._quadrature_points) \/ IsNone(self._quadrature_weights)
    THEN Raise(self, log)
    ELSE System(self, log, Val(self._quadrature_points), Val(self._quadrature_weights),
                Val(self._model_evaluations).vals,
                get_poly(self, Val(self._quadrature_points), None))

\* lines 396-442
SolveCoefficients(self, log) ==
    IF self.mesh = Some("sparse-grid") THEN SolveSparse(self, log)
    ELSE SolveStandard(self, log)

\* ----------------------------------------- set_model and _set_coefficients
\* lines 356-362: the gradient values, dimension by dimension, each scaled by
\* the square root of its point's weight
FlattenGradients(grad_values, weights) ==
    [r \in 1..(Len(grad_values) * Len(grad_values[1])) |->
        [w |-> weights[((r - 1) % Len(grad_values)) + 1],
         x |-> grad_values[((r - 1) % Len(grad_values)) + 1]
                          [((r - 1) \div Len(grad_values)) + 1]]]

\* an array of outputs passed as the model argument
ArrayModel(y) == [callable |-> FALSE, f |-> "", vals |-> y.vals, cols |-> y.cols]

\* a prune that stops at the number of outputs that are left
PruneCount_NoDimensions(self, outputs_left) ==
    LET number_of_basis_to_prune_down == self.basis.cardinality - outputs_left
    IN  IF number_of_basis_to_prune_down > 0 THEN number_of_basis_to_prune_down ELSE 0

\* lines 388-390: how many basis elements the recovery asks Basis.prune to
\* delete, given the number of outputs that are left (0: no prune)
PruneCount(self, outputs_left) ==
    LET number_of_basis_to_prune_down == self.basis.cardinality - outputs_left
    IN  IF number_of_basis_to_prune_down > 0
        THEN number_of_basis_to_prune_down + self.dimensions
        ELSE 0

RECURSIVE set_model(_, _, _, _, _)

\* what the nested set_model returns, the recovery marked as complete
Refitted(inner, info) ==
    IF inner.err THEN inner
    ELSE [inner EXCEPT !.log.nan = Some([info EXCEPT !.stage = "refitted"])]
\* line 395: self.set_model(self.outputs), once the design is rebuilt
Refit(design, fault, log, info) ==
    IF design.err
    THEN Raise(design.self, [log EXCEPT !.nan = Some([info EXCEPT !.stage = "pruned"])])
    ELSE Refitted(set_model(design.self, Some(ArrayModel(Val(design.self.outputs))),
                            None, fault,
                            [log EXCEPT !.recoveries = @ + 1,
                                        !.nan = Some([info EXCEPT !.stage = "design"])]),
                  info)
\* lines 390-394, pruned being what Basis.prune answered
Pruned(s1, fault, log, info, pruned) ==
    IF pruned.err THEN Raise(s1, [log EXCEPT !.nan = Some(info)])
    ELSE Refit(_set_points_and_weights(
                   _set_solver([s1 EXCEPT !.basis = pruned.basis,
                                          !.method = Some("least-squares"),
                                          !.mesh = Some("user-defined")]),
                   fault),
               fault, log, info)
\* lines 388-390
Trimmed(s1, fault, log, info, to_delete) ==
    Pruned(s1, fault, log, info,
           IF to_delete > 0 THEN Basis_prune(s1.basis, to_delete)
           ELSE [err |-> FALSE, basis |-> s1.basis])
\* lines 382-395; info is what the recovery saw on entry
NanRecovery(self, fault, log) ==
    IF IsNone(self._quadrature_points)
       \/ (\E i \in NanRows(Val(self._model_evaluations)) :
              i >= Len(Val(self._quadrature_points)))
    THEN Raise(self, log)
    ELSE Trimmed([self EXCEPT
                     !.inputs = Some(Delete(Val(self._quadrature_points),
                                            NanRows(Val(self._model_evaluations)))),
                     !.outputs = Some([vals |-> Delete(Val(self._model_evaluations).vals,
                                                       NanRows(Val(self._model_evaluations))),
                                       cols |-> Val(self._model_evaluations).cols]),
                     !.subsampling_algorithm_name = None],
                 fault, log,
                 [n |-> Len(Val(self._model_evaluations).vals),
                  k |-> Cardinality(NanRows(Val(self._model_evaluations))),
                  cardinality |-> self.basis.cardinality,
                  stage |-> "entered"],
                 PruneCount(self, Len(Val(self._model_evaluations).vals)
                                  - Cardinality(NanRows(Val(self._model_evaluations)))))

\* line 396 onwards, reached after the recovery returns
AfterRecovery(r) == IF r.err THEN r ELSE SolveCoefficients(r.self, r.log)

_set_coefficients(self, user_defined_coefficients, fault, log) ==
    IF ~IsNone(user_defined_coefficients)
    THEN Return([self EXCEPT !.coefficients = user_defined_coefficients],
                [log EXCEPT !.assigns = @ + 1])
    ELSE IF IsNone(self._model_evaluations) THEN Raise(self, log)
    ELSE IF NanRows(Val(self._model_evaluations)) # {}
    THEN AfterRecovery(NanRecovery(self, fault, log))
    ELSE SolveCoefficients(self, log)

\* lines 355-365: the gradient values are weighted and flattened, then the fit
WithGradientValues(s1, grad_values, fault, log) ==
    IF Len(grad_values) > Len(Val(s1._quadrature_weights)) THEN Raise(s1, log)
    ELSE _set_coefficients(
             [s1 EXCEPT !._gradient_evaluations =
                            Some(FlattenGradients(grad_values, Val(s1._quadrature_weights))),
                        !.statistics_object = None],
             None, fault, log)
\* lines 345-365, y being the evaluations and callable whether the model computed them
Evaluated(self, y, callable, model_grads, fault, log) ==
    IF ~callable /\ Len(y.vals) # Len(Val(self._quadrature_points)) THEN Raise(self, log)
    ELSE IF y.cols # 1 THEN Raise(self, log)
    ELSE IF self.gradient_flag = 1
    THEN IF IsNone(model_grads)
         THEN Raise([self EXCEPT !._model_evaluations = Some(y)], log)
         ELSE WithGradientValues(
                  [self EXCEPT !._model_evaluations = Some(y)],
                  IF Val(model_grads).callable
                  THEN evaluate_model_gradients(Val(self._quadrature_points),
                                                Val(model_grads).f)
                  ELSE Val(model_grads).rows,
                  fault, log)
    ELSE _set_coefficients([self EXCEPT !._model_evaluations = Some(y),
                                        !.statistics_object = None],
                           None, fault, log)

\* a model or a gradient model: None, a callable f, or an array
\* [callable |-> FALSE, vals (model) or rows (gradients), cols]
set_model(self, model, model_grads, fault, log) ==
    IF IsNone(model) /\ ~IsNone(self.outputs)
    THEN _set_coefficients([self EXCEPT !._model_evaluations = self.outputs,
                                        !.statistics_object = None], None, fault, log)
    ELSE IF IsNone(model) \/ IsNone(self._quadrature_points) THEN Raise(self, log)
    ELSE Evaluated(self,
                   IF Val(model).callable
                   THEN evaluate_model(Val(self._quadrature_points), Val(model).f)
                   ELSE [vals |-> Val(model).vals, cols |-> Val(model).cols],
                   Val(model).callable, model_grads, fault, log)

\* ------------------------------------------------------ _set_statistics
MAXIMUM_ORDER_FOR_STATS == 8
\* line 259: whether the statistics are taken on a tensor grid of their own
OwnTensorGrid(self) ==
    /\ self.method # Some("numerical-integration")
    /\ self.dimensions <= 6
    /\ self.highest_order <= MAXIMUM_ORDER_FOR_STATS
\* lines 268-273
Statistics(self, Pr) ==
    IF Pr.err \/ IsNone(self.coefficients) THEN Raise(self, EmptyLog)
    ELSE Return([self EXCEPT !.statistics_object =
                    Some([coefficients |-> Val(self.coefficients),
                          grid |-> IF OwnTensorGrid(self) THEN "tensor-grid" ELSE "design",
                          max_sobol_order |->
                              IF self.highest_order <= MAXIMUM_ORDER_FOR_STATS
                              THEN self.highest_order
                              ELSE MAXIMUM_ORDER_FOR_STATS])],
                EmptyLog)
_set_statistics(self) ==
    IF ~IsNone(self.statistics_object) THEN Return(self, EmptyLog)
    ELSE IF OwnTensorGrid(self)
    THEN Statistics(self,
                    get_poly(self,
                             TensorPoints([i \in 1..Len(self.parameters_order) |->
                                              self.parameters_order[i] + 1]),
                             None))
    ELSE IF IsNone(self._quadrature_points) \/ IsNone(self._quadrature_weights)
    THEN Raise(self, EmptyLog)
    ELSE Statistics(self, get_poly(self, Val(self._quadrature_points), None))

\* ---------------------------------------------------------- get_polyfit
RECURSIVE Dot(_, _, _, _)
\* the sum over the rows r..1 of P[r][j] * c[r]
Dot(P, c, j, r) == IF r = 0 THEN 0 ELSE P[r][j] * c[r] + Dot(P, c, j, r - 1)
\* line 508: np.dot(P.T, coefficients.reshape(N, 1)), one value per point
Fitted(c, no_of_points, Pr) ==
    IF Pr.err \/ Len(Pr.P) # Len(c) THEN [err |-> TRUE, value |-> <<>>]
    ELSE [err |-> FALSE, value |-> [j \in 1..no_of_points |-> Dot(Pr.P, c, j, Len(c))]]
get_polyfit(self, stack_of_points) ==
    IF IsNone(self.coefficients) THEN [err |-> TRUE, value |-> <<>>]
    ELSE Fitted(Val(self.coefficients), Len(stack_of_points),
                get_poly(self, stack_of_points, None))

\* _set_parameters
_set_parameters(self, parameters, fault) ==
    _set_points_and_weights([self EXCEPT !.parameters = parameters], fault)

\* ================================================================ inputs
Param(o) == [order |-> o]
ParameterChoices == {<<Param(MaxOrder)>>, <<Param(1), Param(1)>>}
UnsetBasis(basis_type) ==
    [basis_type |-> basis_type, orders |-> <<>>, elements |-> <<>>, cardinality |-> 0]
\* a univariate index set without the exponents between 0 and the order
GapBasis(o) ==
    [basis_type |-> "total-order", orders |-> <<o>>,
     elements |-> << <<0>>, <<o>> >>, cardinality |-> 2]
\* the bases the index-set families give
BasisChoices(parameters) ==
    IF Len(parameters) = 1
    THEN {UnsetBasis("tensor-grid")}
    ELSE {UnsetBasis("total-order"), UnsetBasis("tensor-grid"), UnsetBasis("sparse-grid")}
\* and with them the univariate index set with a gap
AnyBasisChoices(parameters) ==
    BasisChoices(parameters)
    \cup (IF Len(parameters) = 1 THEN {GapBasis(parameters[1].order)} ELSE {})
Methods == {"numerical-integration", "integration", "least-squares",
            "least-squares-with-gradients", "compressed-sensing",
            "compressive-sensing", "minimum-norm"}
UserPoints(d) == [i \in 1..3 |-> [k \in 1..d |-> IF k = 1 THEN i - 1 ELSE i % 2]]
UserOutputs == {[vals |-> <<1, 2, 3>>, cols |-> 1], [vals |-> <<1, NaN, 3>>, cols |-> 1]}
SamplingArgs(m, r, a, x, y) ==
    Some([mesh |-> m, sampling_ratio |-> r, subsampling_algorithm |-> a,
          sample_points |-> x, sample_outputs |-> y])
\* every way of giving or leaving out each key of sampling_args
AllSamplingArgs(d) ==
    {None} \cup
    {SamplingArgs(m, r, a, x, y) :
        m \in {None, Some("monte-carlo"), Some("sparse-grid")},
        r \in {None, Some(<<1, 2>>), Some(<<2, 1>>)},
        a \in {None, Some("qr")},
        x \in {None, Some(UserPoints(d))},
        y \in {None} \cup {Some(o) : o \in UserOutputs}}
\* the sampling_args the objects that live on are built with
SamplingArgsChoices(d) ==
    {None,
     SamplingArgs(None, None, Some("qr"), None, None),
     SamplingArgs(None, Some(<<1, 2>>), Some("qr"), None, None),
     SamplingArgs(None, None, None, Some(UserPoints(d)), Some([vals |-> <<1, NaN, 3>>, cols |-> 1]))}
LiveMethods == {"numerical-integration", "least-squares", "least-squares-with-gradients"}
\* the precomputed output arrays of n rows: the first k entries NaN (k = 0..n),
\* the other entries the row numbers; and the two-column arrays
NanPrefix(n, k) == [i \in 1..n |-> IF i <= k THEN NaN ELSE i]
OutputArrays ==
    UNION {{ArrayModel([vals |-> NanPrefix(n, k), cols |-> 1]) : k \in 0..n}
            \cup {ArrayModel([vals |-> NanPrefix(n, 0), cols |-> 2])} : n \in 1..MaxRows}
Models ==
    {None} \cup {Some([callable |-> TRUE, f |-> f, vals |-> <<>>, cols |-> 1]) : f \in ModelFns}
    \cup {Some(a) : a \in OutputArrays}
\* the gradient models; model_grads is read in gradient mode only
GradModels(self) ==
    IF self.gradient_flag = 1
    THEN {None, Some([callable |-> TRUE, f |-> "grad", rows |-> <<>>])}
    ELSE {None}
UserCoefficients(self, c) == [i \in 1..Len(self.basis.elements) |-> c + i - 1]
EvalPoint(d, v) == <<[k \in 1..d |-> v + k - 1]>>

\* ================================================================= state
VARIABLES
    poly,   \* the Poly object: None before construction, else Some(its fields)
    ret     \* the last call: its name, whether it raised, its value, its log
vars == <<poly, ret>>

Outcome(op, err, value, log) == [op |-> op, err |-> err, value |-> value, log |-> log]

Init ==
    /\ poly = None
    /\ ret = Outcome("none", FALSE, <<>>, EmptyLog)

\* Poly(parameters, basis, method, sampling_args): a constructor that raises
\* leaves no object behind
Construct(methods, args, gaps) ==
    /\ IsNone(poly)
    /\ \E parameters \in ParameterChoices :
       \E basis \in IF gaps THEN AnyBasisChoices(parameters) ELSE BasisChoices(parameters) :
       \E method \in methods :
       \E sampling_args \in args[Len(parameters)] :
       \E fault \in Faults :
       \E r \in {Poly_init(parameters, basis, method, sampling_args, fault)} :
          /\ poly' = IF r.err THEN None ELSE Some(r.self)
          /\ ret' = Outcome("__init__", r.err, <<>>, EmptyLog)

\* the object goes out of scope
Discard ==
    /\ ~IsNone(poly)
    /\ poly' = None
    /\ ret' = Outcome("none", FALSE, <<>>, EmptyLog)

SetModel ==
    /\ ~IsNone(poly)
    /\ \E model \in Models, model_grads \in GradModels(Val(poly)) :
       \E r \in {set_model(Val(poly), model, model_grads, "none", EmptyLog)} :
          /\ poly' = Some(r.self)
          /\ ret' = Outcome("set_model", r.err, <<>>, r.log)

SetUserCoefficients ==
    /\ ~IsNone(poly)
    /\ \E c \in 1..MaxCoef :
       \E r \in {_set_coefficients(Val(poly), Some(UserCoefficients(Val(poly), c)),
                                   "none", EmptyLog)} :
          /\ poly' = Some(r.self)
          /\ ret' = Outcome("_set_coefficients", r.err, <<>>, r.log)

SetStatistics ==
    /\ ~IsNone(poly)
    /\ \E r \in {_set_statistics(Val(poly))} :
          /\ poly' = Some(r.self)
          /\ ret' = Outcome("_set_statistics", r.err, <<>>, r.log)

\* the collaborators may fail while the design is rebuilt
SetParameters ==
    /\ ~IsNone(poly)
    /\ \E fault \in Faults :
       \E r \in {_set_parameters(Val(poly), Val(poly).parameters, fault)} :
          /\ poly' = Some(r.self)
          /\ ret' = Outcome("_set_parameters", r.err, <<>>, EmptyLog)

GetPolyfit ==
    /\ ~IsNone(poly)
    /\ \E v \in 1..MaxX :
       \E r \in {get_polyfit(Val(poly), EvalPoint(Val(poly).dimensions, v))} :
          /\ poly' = poly
          /\ ret' = Outcome("get_polyfit", r.err,
                            <<EvalPoint(Val(poly).dimensions, v), r.value>>, EmptyLog)

LiveArgs == [d \in 1..2 |-> SamplingArgsChoices(d)]
AllArgs == [d \in 1..2 |-> AllSamplingArgs(d)]
OptionOf(S) == {None} \cup {Some(x) : x \in S}

\* the design and the fit
Next ==
    \/ Construct(OptionOf(LiveMethods), LiveArgs, FALSE)
    \/ SetModel
    \/ SetParameters
Spec == Init /\ [][Next]_vars

\* construction alone, over every method and every sampling_args
NextConfig ==
    \/ Construct(OptionOf(Methods), AllArgs, FALSE)
    \/ Discard
SpecConfig == Init /\ [][NextConfig]_vars

\* the fit, the statistics handle and coefficients given by the caller
NextStats ==
    \/ Construct(OptionOf({"least-squares", "numerical-integration"}),
                 [d \in 1..2 |-> {None}], FALSE)
    \/ SetModel
    \/ SetUserCoefficients
    \/ SetStatistics
SpecStats == Init /\ [][NextStats]_vars

\* the fit and the evaluation of the surrogate
NextEval ==
    \/ Construct(OptionOf({"least-squares"}), LiveArgs, TRUE)
    \/ SetModel
    \/ SetUserCoefficients
    \/ GetPolyfit
SpecEval == Init /\ [][NextEval]_vars

\* the fit against outputs stored at construction, of every shape
ShapeOutputs ==
    {[vals |-> <<1, 2, 3>>, cols |-> 1],
     [vals |-> <<1, 2, 3>>, cols |-> 2],
     [vals |-> <<1, 2>>, cols |-> 1]}
ShapeArgs(d) ==
    {None} \cup
    {SamplingArgs(None, None, None, x, Some(y)) :
        x \in {None, Some(UserPoints(d))}, y \in ShapeOutputs}
NextShape ==
    \/ Construct(OptionOf({"least-squares", "numerical-integration"}),
                 [d \in 1..2 |-> ShapeArgs(d)], FALSE)
    \/ SetModel
SpecShape == Init /\ [][NextShape]_vars

\* ------------------------------------------------------ get_polyfit_grad
\* lines 527-532: one row per dimension, each the coefficients dotted with
\* H[i]; with one dimension, the coefficients dotted with H itself
GradFitted(self, c, no_of_points, H) ==
    IF H.err THEN [err |-> TRUE, value |-> <<>>]
    ELSE IF self.dimensions = 1
    THEN IF H.list \/ Len(H.R) # Len(c) THEN [err |-> TRUE, value |-> <<>>]
         ELSE [err |-> FALSE,
               value |-> <<[j \in 1..no_of_points |-> Dot(H.R, c, j, Len(c))]>>]
    ELSE IF ~H.list \/ Len(H.R) < self.dimensions
            \/ \E i \in 1..self.dimensions : Len(H.R[i]) # Len(c)
    THEN [err |-> TRUE, value |-> <<>>]
    ELSE [err |-> FALSE,
          value |-> [i \in 1..self.dimensions |->
                        [j \in 1..no_of_points |-> Dot(H.R[i], c, j, Len(c))]]]
get_polyfit_grad(self, stack_of_points, dim_index) ==
    IF IsNone(self.coefficients) THEN [err |-> TRUE, value |-> <<>>]
    ELSE GradFitted(self, Val(self.coefficients), Len(stack_of_points),
                    get_poly_grad(self, stack_of_points, dim_index))

\* dim_index: left out, or any set of 0-based dimensions
DimChoices(d) == {None} \cup {Some(S) : S \in SUBSET (0..(d - 1))}

GetPolyfitGrad ==
    /\ ~IsNone(poly)
    /\ \E v \in 1..MaxX :
       \E dim_index \in DimChoices(Val(poly).dimensions) :
       \E r \in {get_polyfit_grad(Val(poly), EvalPoint(Val(poly).dimensions, v), dim_index)} :
          /\ poly' = poly
          /\ ret' = Outcome("get_polyfit_grad", r.err,
                            <<EvalPoint(Val(poly).dimensions, v), dim_index, r.value>>,
                            EmptyLog)

\* the fit and the gradient of the surrogate
NextGrad ==
    \/ Construct(OptionOf({"least-squares"}), [d \in 1..2 |-> {None}], FALSE)
    \/ SetModel
    \/ SetUserCoefficients
    \/ GetPolyfitGrad
SpecGrad == Init /\ [][NextGrad]_vars

\* --------------------------------------------------------- get_poly_hess
\* lines 715-719: the tables of every dimension, each asked for one order above
\* the largest exponent the basis has in that dimension
HessTables(self, stack_of_points, basis) ==
    [i \in 1..Len(basis[1]) |->
        Parameter_get_orthogonal_polynomial(self.parameters[i],
            Column(stack_of_points, i), MaxSeq(BasisColumn(basis, i)) + 1)]
RECURSIVE HessProd(_, _, _, _, _, _)
\* lines 728-737: the product over the dimensions k..1, the factor of dimension
\* k the second derivative when k = w = v, the derivative when k is one of w
\* and v, the polynomial itself otherwise
HessProd(t, row, j, w, v, k) ==
    IF k = 0 THEN 1
    ELSE (IF k = w /\ k = v THEN t[k].d2p[row[k] + 1][j]
          ELSE IF k = w \/ k = v THEN t[k].dp[row[k] + 1][j]
          ELSE t[k].p[row[k] + 1][j])
         * HessProd(t, row, j, w, v, k - 1)
\* lines 711-713: the univariate branch returns the second-derivative table
HessUnivariate(t) ==
    [err |-> FALSE, list |-> FALSE, H |-> t.d2p, requested |-> <<t.order>>]
\* lines 720-739: a list of d*d matrices, element w*d + v for the pair (w, v)
HessMultivariate(basis, no_of_points, t) ==
    [err |-> FALSE, list |-> TRUE,
     H |-> [u \in 1..(Len(t) * Len(t)) |->
               [r \in 1..Len(basis) |-> [j \in 1..no_of_points |->
                   HessProd(t, basis[r], j, ((u - 1) \div Len(t)) + 1,
                            ((u - 1) % Len(t)) + 1, Len(t))]]],
     requested |-> [i \in 1..Len(t) |-> t[i].order]]
get_poly_hess(self, stack_of_points) ==
    IF Len(self.basis.elements) = 0
    THEN [err |-> TRUE, list |-> FALSE, H |-> <<>>, requested |-> <<>>]
    ELSE IF Len(self.basis.elements[1]) = 1
    THEN HessUnivariate(Tables(self, stack_of_points, self.basis.elements)[1])
    ELSE HessMultivariate(self.basis.elements, Len(stack_of_points),
                          HessTables(self, stack_of_points, self.basis.elements))

\* the three evaluations of the basis; the orders they asked the parameters for
\* are kept with what they returned
GetPoly ==
    /\ ~IsNone(poly)
    /\ \E v \in 1..MaxX :
       \E r \in {get_poly(Val(poly), EvalPoint(Val(poly).dimensions, v), None)} :
          /\ poly' = poly
          /\ ret' = Outcome("get_poly", r.err, <<r.requested, r.P>>, EmptyLog)
GetPolyGrad ==
    /\ ~IsNone(poly)
    /\ \E v \in 1..MaxX :
       \E r \in {get_poly_grad(Val(poly), EvalPoint(Val(poly).dimensions, v), None)} :
          /\ poly' = poly
          /\ ret' = Outcome("get_poly_grad", r.err, <<r.requested, r.R>>, EmptyLog)
GetPolyHess ==
    /\ ~IsNone(poly)
    /\ \E v \in 1..MaxX :
       \E r \in {get_poly_hess(Val(poly), EvalPoint(Val(poly).dimensions, v))} :
          /\ poly' = poly
          /\ ret' = Outcome("get_poly_hess", r.err, <<r.requested, r.H>>, EmptyLog)

\* the fit and the evaluations of the basis
NextBasis ==
    \/ Construct(OptionOf({"least-squares", "numerical-integration"}),
                 [d \in 1..2 |-> {None}], TRUE)
    \/ SetModel
    \/ GetPoly
    \/ GetPolyGrad
    \/ GetPolyHess
SpecBasis == Init /\ [][NextBasis]_vars

\* the fit and the statistics handle under either name of the integration method
NextNames ==
    \/ Construct(OptionOf({"integration", "numerical-integration"}),
                 [d \in 1..2 |-> {None}], FALSE)
    \/ SetModel
    \/ SetUserCoefficients
    \/ SetStatistics
SpecNames == Init /\ [][NextNames]_vars

\* ================================================================ claims
\* what the last set_model call found and did about NaN outputs
Recovery == Val(ret.log.nan)
Recovered ==
    /\ ret.op = "set_model"
    /\ ret.log.nan # None
    /\ 0 < Recovery.k
    /\ Recovery.k < Recovery.n

C2_NanNeverFatal ==
    Recovered => (~ret.err /\ Val(poly).coefficients # None)

\* ---- C3
\* C3: whenever the statistics handle is present, it was built from the
\* coefficients that are stored now
C3_StatisticsFresh ==
    (poly # None /\ Val(poly).statistics_object # None)
    => /\ Val(poly).coefficients # None
       /\ Val(Val(poly).statistics_object).coefficients = Val(Val(poly).coefficients)

\* ---- C4
\* C4: after every completed _set_points_and_weights the stored A is the
\* weight-scaled basis evaluation at the retained design: as many rows as there
\* are retained points, as many columns as the basis cardinality
C4_DesignMatrix ==
    (poly # None /\ ret.op \in {"__init__", "_set_parameters"} /\ ~ret.err
        /\ Val(poly).method # None)
    => LET self == Val(poly)
           points == Val(self._quadrature_points)
           weights == Val(self._quadrature_weights)
       IN  /\ self.A # None
           /\ Rows(Val(self.A)) = Len(points)
           /\ Cols(Val(self.A)) = self.basis.cardinality
           /\ Val(self.A) = WeightedTranspose(weights, get_poly(self, points, None).P)

\* ---- C5
\* the quadrature object, the design points, the design weights and A
DesignState(p) ==
    <<Val(p).quadrature, Val(p)._quadrature_points, Val(p)._quadrature_weights, Val(p).A>>
\* C5: a _set_points_and_weights call in which the generator or the selector
\* fails leaves the quadrature object, the design and A as they were
C5_NoPartialState ==
    [][(poly # None /\ poly' # None /\ ret'.op = "_set_parameters" /\ ret'.err)
          => DesignState(poly') = DesignState(poly)]_vars

\* ---- C6
\* C6: after a fit that pruned the basis or replaced basis.elements by the
\* deduplicated union, the coefficient vector is as long as basis.cardinality,
\* and basis.cardinality is the number of rows of basis.elements
C6_CardinalityInvariant ==
    (ret.op = "set_model" /\ ~ret.err /\ (ret.log.nan # None \/ ret.log.local # <<>>))
    => LET self == Val(poly)
       IN  /\ Len(Val(self.coefficients)) = self.basis.cardinality
           /\ self.basis.cardinality = Len(self.basis.elements)

\* ---- C7
\* the sub-grids of the last sparse-grid fit that hold multi-index u
Holding(u) == {c \in 1..Len(ret.log.local) : u \in Range(ret.log.local[c].elements)}
\* sub-grid c's local coefficient of u, times the sub-grid's combination weight
Contribution(c, u) ==
    LET l == ret.log.local[c]
        j == CHOOSE i \in 1..Len(l.elements) : l.elements[i] = u
    IN  l.solved[j] * Val(Val(poly).quadrature).sparse_weights[c]
SparseFitted == ret.op = "set_model" /\ ~ret.err /\ ret.log.local # <<>>
\* C7: after a fit with mesh sparse-grid, basis.elements holds every multi-index
\* of every sub-grid exactly once and nothing else, and the coefficient in row i
\* is the sum, over the sub-grids holding that row's multi-index, of the
\* sub-grid's local coefficient times its combination weight
C7_SparseCombination ==
    SparseFitted
    => LET self == Val(poly)
           B == self.basis.elements
           c == Val(self.coefficients)
           n == Len(ret.log.local)
       IN  /\ self.mesh = Some("sparse-grid")
           /\ Range(B) = UNION {Range(ret.log.local[t].elements) : t \in 1..n}
           /\ Cardinality(Range(B)) = Len(B)
           /\ Len(c) = Len(B)
           /\ \A i \in 1..Len(B) :
                 c[i] = SumSeq([t \in 1..n |->
                                   IF t \in Holding(B[i]) THEN Contribution(t, B[i]) ELSE 0])
\* a sparse-grid fit in which two sub-grids give a multi-index coefficients that
\* differ from their sum
C7_Witness ==
    /\ SparseFitted
    /\ \E i \in 1..Len(Val(poly).basis.elements) :
          LET u == Val(poly).basis.elements[i]
          IN  /\ Cardinality(Holding(u)) >= 2
              /\ \A t \in Holding(u) :
                    /\ Contribution(t, u) # 0
                    /\ Contribution(t, u) # Val(Val(poly).coefficients)[i]

\* ---- C8
RECURSIVE BasisFunction(_, _, _, _)
\* the basis function of multi-index e at the point x: the product over the
\* dimensions k..1 of the order-e[k] polynomial of parameter k at x[k]
BasisFunction(parameters, e, x, k) ==
    IF k = 0 THEN 1
    ELSE Parameter_get_orthogonal_polynomial(parameters[k], <<x[k]>>, e[k]).p[e[k] + 1][1]
         * BasisFunction(parameters, e, x, k - 1)
\* C8: for a basis with at least one row and a coefficient vector as long as
\* the basis, get_polyfit at a point
\* returns the dot product of the coefficients with get_poly at the point, and
\* get_poly has one row per row of the basis, row i the basis function of the
\* multi-index in row i
C8_RoundTrip ==
    (poly # None /\ ret.op = "get_polyfit" /\ Val(poly).coefficients # None
        /\ Len(Val(poly).basis.elements) >= 1
        /\ Len(Val(Val(poly).coefficients)) = Len(Val(poly).basis.elements))
    => LET self == Val(poly)
           B == self.basis.elements
           c == Val(self.coefficients)
           x == ret.value[1]
           P == get_poly(self, x, None).P
       IN  /\ ~ret.err
           /\ Len(P) = Len(B)
           /\ \A i \in 1..Len(B) :
                 P[i][1] = BasisFunction(self.parameters, B[i], x[1], self.dimensions)
           /\ ret.value[2][1] = SumSeq([i \in 1..Len(B) |-> c[i] * P[i][1]])

\* ---- C9
\* whether the sampling_args the object was built with hold key f
Given(f) ==
    /\ Val(poly).sampling_args # None
    /\ Val(Val(poly).sampling_args)[f] # None
Constructed == poly # None /\ ret.op = "__init__" /\ ~ret.err
\* C9: after construction with a method, the mesh is user-defined when
\* sampling_args holds sample points; else the mesh sampling_args names; else
\* the method's default (the basis type for numerical-integration and
\* integration, tensor-grid for least-squares with or without gradients,
\* monte-carlo for compressed-/compressive-sensing and minimum-norm); and the
\* sampling ratio and the subsampling algorithm are the ones sampling_args names,
\* else 1.0 and none
C9_MeshResolution ==
    (Constructed /\ Val(poly).method # None)
    => LET self == Val(poly)
           method == Val(self.method)
           a == Val(self.sampling_args)
       IN  /\ self.mesh =
                 Some(IF Given("sample_points") THEN "user-defined"
                      ELSE IF Given("mesh") THEN Val(a.mesh)
                      ELSE IF method \in {"numerical-integration", "integration"}
                           THEN self.basis.basis_type
                      ELSE IF method \in {"least-squares", "least-squares-with-gradients"}
                           THEN "tensor-grid"
                      ELSE "monte-carlo")
           /\ self.sampling_ratio =
                 (IF Given("sampling_ratio") THEN Val(a.sampling_ratio) ELSE <<1, 1>>)
           /\ self.subsampling_algorithm_name =
                 (IF Given("subsampling_algorithm") THEN a.subsampling_algorithm ELSE None)
\* an object built from sampling_args that hold both a mesh and sample points
C9_Witness ==
    /\ Constructed
    /\ Val(poly).method # None
    /\ Given("sample_points")
    /\ Given("mesh")
    /\ Val(poly).sampling_args[1].mesh # Some("user-defined")
    /\ Val(poly).mesh = Some("user-defined")

\* ---- C10
\* nothing of the configuration has been built, and sampling_args were not read
Unconfigured(self) ==
    /\ self.mesh = None
    /\ self.solver = None
    /\ self.subsampling_algorithm_function = None
    /\ self.quadrature = None
    /\ self._quadrature_points = None
    /\ self._quadrature_weights = None
    /\ self.A = None
    /\ self.inputs = None
    /\ self.outputs = None
    /\ self.subsampling_algorithm_name = None
    /\ self.sampling_ratio = <<1, 1>>
\* C10, as the code has it: an object built without a method has no solver,
\* subsampling strategy, quadrature, design or design matrix and has not read
\* sampling_args; every set_model call on it raises, and every get_polyfit call
\* made before coefficients are assigned raises
C10_MethodAbsent ==
    (poly # None /\ Val(poly).method = None)
    => /\ Unconfigured(Val(poly))
       /\ (ret.op = "set_model" => ret.err)
       /\ ((ret.op = "get_polyfit" /\ Val(poly).coefficients = None) => ret.err)
\* an object built without a method, with sampling_args, on which set_model raised
C10_Witness ==
    /\ poly # None
    /\ Val(poly).method = None
    /\ Val(poly).sampling_args # None
    /\ ret.op = "set_model"
    /\ ret.err
\* C10 as stated: on such an object every set_model and every get_polyfit call
\* raises
C10_AsStated ==
    (poly # None /\ Val(poly).method = None)
    => /\ Unconfigured(Val(poly))
       /\ (ret.op \in {"set_model", "get_polyfit"} => ret.err)

\* ---- C11
\* the outputs a set_model call works with: the stored outputs when no model
\* is passed, the evaluations of a callable, or the array passed
OutputsOf(self, model) ==
    IF IsNone(model) THEN Val(self.outputs)
    ELSE IF Val(model).callable
    THEN evaluate_model(Val(self._quadrature_points), Val(model).f)
    ELSE [vals |-> Val(model).vals, cols |-> Val(model).cols]
Misshapen(self, y) ==
    y.cols # 1 \/ Len(y.vals) # Len(Val(self._quadrature_points))
\* the calls of set_model the object can take whose outputs are misshapen
ShapeCalls(self) ==
    {model \in Models :
        /\ ~IsNone(self._quadrature_points)
        /\ (~IsNone(model) \/ ~IsNone(self.outputs))
        /\ Misshapen(self, OutputsOf(self, model))}
FitState(self) ==
    <<self._model_evaluations, self.coefficients, self.quadrature,
      self._quadrature_points, self._quadrature_weights, self.A,
      self.statistics_object>>
\* C11: every set_model call whose outputs do not have exactly one column, or
\* whose row count differs from the number of design points, raises before the
\* solver is invoked and leaves the model evaluations, the coefficients, the
\* design and the statistics handle as they were.
C11_ShapeRejected ==
    poly # None
    => \A model \in ShapeCalls(Val(poly)) :
       \A model_grads \in GradModels(Val(poly)) :
       \A r \in {set_model(Val(poly), model, model_grads, "none", EmptyLog)} :
          /\ r.err
          /\ r.log.solves = 0
          /\ FitState(r.self) = FitState(Val(poly))

\* ---- C12
\* a design has just been built, at construction or by _set_parameters
Designing ==
    /\ poly # None
    /\ ret.op \in {"__init__", "_set_parameters"}
    /\ ~ret.err
    /\ Val(poly).method # None
\* the rows the selector answers with for the design matrix stored at line 202
SelectedRows(self) ==
    Subsampling_select(Val(self.subsampling_algorithm_function), Val(self.A),
                       Round(RatMul(self.sampling_ratio, <<Cols(Val(self.A)), 1>>))).z
\* C12: when a subsampling algorithm is configured, after
\* _set_points_and_weights the retained weights are the generator's weights at
\* the selected rows divided by their sum, so they sum to 1 and there are as
\* many weights as points; without subsampling the points and weights are
\* exactly the generator's.
C12_WeightNormalisation ==
    Designing
    => \A self \in {Val(poly)} :
          IF self.subsampling_algorithm_name # None
          THEN \A raw \in {Take(Val(self.quadrature).weights, SelectedRows(self))} :
                  /\ Val(self._quadrature_weights)
                        = [i \in 1..Len(raw) |-> RatDiv(raw[i], RatSum(raw))]
                  /\ RatSum(Val(self._quadrature_weights)) = <<1, 1>>
                  /\ Len(Val(self._quadrature_points)) = Len(Val(self._quadrature_weights))
                  /\ Val(self._quadrature_points)
                        = Take(Val(self.quadrature).points, SelectedRows(self))
          ELSE /\ Val(self._quadrature_weights) = Val(self.quadrature).weights
               /\ Val(self._quadrature_points) = Val(self.quadrature).points
\* a subsampled design whose weights the division changed
C12_Witness ==
    /\ Designing
    /\ Val(poly).subsampling_algorithm_name # None
    /\ Val(Val(poly)._quadrature_weights)
          # Take(Val(Val(poly).quadrature).weights, SelectedRows(Val(poly)))
    /\ Len(Val(Val(poly)._quadrature_weights)) < Len(Val(Val(poly).quadrature).weights)

\* ---- C13
\* the object as line 111 of the constructor hands it to _set_points_and_weights
Prepared(parameters, basis, method, sampling_args) ==
    _set_subsampling_algorithm(
        _set_solver(ApplySamplingArgs(
            MethodDefaults(Defaults(parameters, basis, Some(method), sampling_args)),
            sampling_args)))
\* m_refined of line 204 for a design matrix of the given number of columns
TargetRowCount(self, columns) == Round(RatMul(self.sampling_ratio, <<columns, 1>>))
\* the selector is reached with the raw design "made" and the basis rows P, and
\* its target row count is a positive integer no larger than the row count
SelectorCallSound(self, made, Pr) ==
    (~made.err /\ ~Pr.err)
    => /\ TargetRowCount(self, Len(Pr.P)) >= 1
       /\ TargetRowCount(self, Len(Pr.P)) <= Len(made.quadrature.points)
SelectorReached(self, made) ==
    made.err \/ SelectorCallSound(self, made, get_poly(self, made.quadrature.points, None))
\* C13: wherever a Poly can be constructed, every construction that configures
\* a subsampling algorithm calls the selector with a target row count
\* round(sampling_ratio * cardinality) that is at least 1 and at most the number
\* of rows of the matrix passed, for every sampling ratio the constructor takes.
C13_SelectorPrecondition ==
    poly = None
    => \A parameters \in ParameterChoices :
       \A basis \in BasisChoices(parameters) :
       \A method \in Methods :
       \A sampling_args \in AllSamplingArgs(Len(parameters)) :
       \A self \in {Prepared(parameters, basis, method, sampling_args)} :
          (self.subsampling_algorithm_name # None /\ self.mesh # None)
          => SelectorReached(self, Quadrature(self.parameters, self.basis, self.inputs,
                                              Val(self.mesh)))

\* ---- C14
RECURSIVE BasisPartial(_, _, _, _, _)
\* the partial derivative in dimension v of the basis function of multi-index e
\* at the point x: the product over the dimensions k..1, dimension v's factor
\* the derivative of its polynomial
BasisPartial(parameters, e, x, v, k) ==
    IF k = 0 THEN 1
    ELSE (IF k = v
          THEN Parameter_get_orthogonal_polynomial(parameters[k], <<x[k]>>, e[k]).dp[e[k] + 1][1]
          ELSE Parameter_get_orthogonal_polynomial(parameters[k], <<x[k]>>, e[k]).p[e[k] + 1][1])
         * BasisPartial(parameters, e, x, v, k - 1)
\* the partial derivative of the surrogate in dimension v at x
SurrogatePartial(self, x, v) ==
    SumSeq([i \in 1..Len(self.basis.elements) |->
               Val(self.coefficients)[i]
               * BasisPartial(self.parameters, self.basis.elements[i], x, v, self.dimensions)])
\* get_polyfit_grad has just been called on a fitted surrogate
GradientAsked ==
    /\ poly # None
    /\ ret.op = "get_polyfit_grad"
    /\ Val(poly).coefficients # None
    /\ Len(Val(poly).basis.elements) >= 1
    /\ Len(Val(Val(poly).coefficients)) = Len(Val(poly).basis.elements)
Requested(dim_index, v) == IsNone(dim_index) \/ (v - 1) \in Val(dim_index)
\* C14: get_polyfit_grad with a subset of dimensions returns, in one dimension
\* or more, one row per dimension: all zeros for a dimension that is not
\* requested, the partial derivative of the surrogate for one that is.
C14_GradientRows ==
    GradientAsked
    => /\ ~ret.err
       /\ Len(ret.value[3]) = Val(poly).dimensions
       /\ \A v \in 1..Val(poly).dimensions :
             ret.value[3][v][1]
                = IF Requested(ret.value[2], v)
                  THEN SurrogatePartial(Val(poly), ret.value[1][1], v)
                  ELSE 0

\* ---- C15
\* the design as stored
StoredDesign(self) == <<self._quadrature_points, self._quadrature_weights, self.A>>
\* C15: after every call that returns, on an object built with a method, the
\* stored points, weights and matrix A are the ones the generator and the basis
\* evaluation give for the object's current parameters, basis index set and
\* mesh and sampling configuration: building the design again changes nothing.
C15_DesignFresh ==
    (poly # None /\ Val(poly).method # None /\ ~ret.err)
    => \A built \in {_set_points_and_weights(Val(poly), "none")} :
          /\ ~built.err
          /\ StoredDesign(built.self) = StoredDesign(Val(poly))

\* ---- C16
\* the row of the global design whose coordinates are x
RowOf(points, x) == CHOOSE i \in 1..Len(points) : points[i] = x
\* C16: in a sparse-grid fit, the right-hand side of every sub-grid holds, for
\* each of the sub-grid's points in the order of the rows of its local design
\* matrix, the global model evaluation at the row of the global design that has
\* the point's coordinates, however the global design and the sub-grid's points
\* are ordered.
C16_SparseRightHandSide ==
    SparseFitted
    => \A c \in 1..Len(ret.log.local) :
       \A tensor \in {Val(Val(poly).quadrature).list[c]} :
          /\ Len(ret.log.local[c].rhs) = Len(tensor.points)
          /\ \A j \in 1..Len(tensor.points) :
                ret.log.local[c].rhs[j]
                   = Val(Val(poly)._model_evaluations).vals[
                         RowOf(Val(Val(poly)._quadrature_points), tensor.points[j])]

\* ---- C17
\* a top-level set_model call has returned
Fit == ret.op = "set_model" /\ ~ret.err
\* C17: one top-level set_model call that returns has invoked the solver and
\* assigned the coefficient vector exactly once (with mesh sparse-grid: the
\* solver once per sub-grid, then one assignment), also when it went through
\* the NaN recovery; and a step that is not a fit leaves the coefficients as
\* they are.
C17_OneSolvePerFit ==
    /\ [](Fit => /\ ret.log.assigns = 1
                 /\ ret.log.solves = IF ret.log.local # <<>> THEN Len(ret.log.local) ELSE 1)
    /\ [][(poly # None /\ poly' # None /\ ret'.op # "set_model")
             => Val(poly').coefficients = Val(poly).coefficients]_vars

\* ---- C18
\* the output arrays that fit the design: one column, a row per design point,
\* no NaN
FittingArrays(self) ==
    {model \in Models :
        /\ ~IsNone(model)
        /\ ~IsNone(self._quadrature_points)
        /\ ~Val(model).callable
        /\ Val(model).cols = 1
        /\ Len(Val(model).vals) = Len(Val(self._quadrature_points))
        /\ \A i \in 1..Len(Val(model).vals) : Val(model).vals[i] # NaN}
GradientCallable == Some([callable |-> TRUE, f |-> "grad", rows |-> <<>>])
\* row j*p + i (dimension j, point i, both from 0) of the flattened gradient
\* values is sqrt(weight_i) times the gradient value at (i, j)
RhsStacked(self, points, weights) ==
    /\ ~IsNone(self._gradient_evaluations)
    /\ Len(Val(self._gradient_evaluations)) = Len(points) * self.dimensions
    /\ \A j \in 0..(self.dimensions - 1) : \A i \in 0..(Len(points) - 1) :
          Val(self._gradient_evaluations)[j * Len(points) + i + 1]
             = [w |-> weights[i + 1], x |-> ApplyGrad("grad", points[i + 1], j + 1)]
\* row j*p + i of C is sqrt(weight_i) times the dimension-j gradients of the
\* basis functions at point i
BlockStacked(self, points, weights, cm) ==
    /\ ~cm.err
    /\ Len(cm.C) = Len(points) * self.dimensions
    /\ \A j \in 0..(self.dimensions - 1) : \A i \in 0..(Len(points) - 1) :
       \A k \in 1..Len(self.basis.elements) :
          cm.C[j * Len(points) + i + 1][k]
             = [w |-> weights[i + 1],
                x |-> BasisPartial(self.parameters, self.basis.elements[k],
                                   points[i + 1], j + 1, self.dimensions)]
GradientStacked(self) ==
    /\ RhsStacked(self, Val(self._quadrature_points), Val(self._quadrature_weights))
    /\ BlockStacked(self, Val(self._quadrature_points), Val(self._quadrature_weights),
                    cell2matrix(get_poly_grad(self, Val(self._quadrature_points), None),
                                Val(self._quadrature_weights)))
\* C18: in gradient mode, a fit with outputs that fit the design and a gradient
\* callable returns, having flattened the gradient values dimension by
\* dimension, entry (dimension j, point i) at row j*p + i and scaled by
\* sqrt(weight_i), and the constraint block that cell2matrix builds has at row
\* j*p + i the dimension-j basis gradients at point i scaled the same way.
C18_GradientStacking ==
    (poly # None /\ Val(poly).gradient_flag = 1)
    => \A model \in FittingArrays(Val(poly)) :
       \A r \in {set_model(Val(poly), model, GradientCallable, "none", EmptyLog)} :
          /\ ~r.err
          /\ GradientStacked(r.self)

\* ---- C19
\* the largest exponent of the basis in each dimension
MaxExponents(self) ==
    [i \in 1..self.dimensions |-> MaxSeq(BasisColumn(self.basis.elements, i))]
BasisEvaluated(op) == poly # None /\ ret.op = op /\ ~ret.err
\* C19: get_poly_hess asks the parameters for the largest exponent of the basis
\* plus one, with one dimension as with more, while get_poly and get_poly_grad
\* ask for exactly the largest exponent.
C19_RequestedOrders ==
    /\ BasisEvaluated("get_poly") => ret.value[1] = MaxExponents(Val(poly))
    /\ BasisEvaluated("get_poly_grad") => ret.value[1] = MaxExponents(Val(poly))
    /\ BasisEvaluated("get_poly_hess")
          => ret.value[1] = [i \in 1..Val(poly).dimensions |-> MaxExponents(Val(poly))[i] + 1]

\* ---- C20
IntegrationNames == {"integration", "numerical-integration"}
OtherName(method) ==
    IF method = "integration" THEN "numerical-integration" ELSE "integration"
\* the object that differs from self only in which of the two names it was given
Twin(self) ==
    [self EXCEPT !.method = Some(OtherName(Val(self.method))),
                 !.solver = Some(OtherName(Val(self.method)))]
\* two calls ended alike: both raised or both returned, and the objects they
\* leave differ in nothing but the name
Alike(a, b) ==
    /\ a.err = b.err
    /\ [a.self EXCEPT !.method = None, !.solver = None]
          = [b.self EXCEPT !.method = None, !.solver = None]
\* an object built under one of the two names and still holding it
Named ==
    /\ poly # None
    /\ Val(poly).method # None
    /\ Val(Val(poly).method) \in IntegrationNames
    /\ Val(poly).solver = Val(poly).method
\* C20: two objects built from the same parameters, basis and sampling
\* arguments, one as 'integration' and one as 'numerical-integration', take the
\* same branch in every operation: construction resolves the same mesh and
\* builds the same design, and from then on rebuilding the design, fitting a
\* model and building the statistics handle leave them alike each time.
C20_NamesInterchangeable ==
    /\ poly = None
          => \A parameters \in ParameterChoices :
             \A basis \in BasisChoices(parameters) :
                Alike(Poly_init(parameters, basis, Some("integration"), None, "none"),
                      Poly_init(parameters, basis, Some("numerical-integration"), None, "none"))
    /\ Named
          => /\ Alike(_set_parameters(Val(poly), Val(poly).parameters, "none"),
                      _set_parameters(Twin(Val(poly)), Val(poly).parameters, "none"))
             /\ \A model \in Models :
                   Alike(set_model(Val(poly), model, None, "none", EmptyLog),
                         set_model(Twin(Val(poly)), model, None, "none", EmptyLog))
             /\ Alike(_set_statistics(Val(poly)), _set_statistics(Twin(Val(poly))))

\* ---- C21
NoNaN(y) == \A i \in 1..Len(y.vals) : y.vals[i] # NaN
\* the last set_model call went into the NaN recovery
RecoveryEntered == poly # None /\ ret.op = "set_model" /\ ret.log.nan # None
\* C21: the NaN recovery stores as outputs the evaluations with every NaN row
\* taken out and disables subsampling, so the nested set_model call never
\* enters the recovery again: one top-level call nests at most one set_model
\* call, and when it returns the mesh is user-defined, the method is
\* least-squares, subsampling is disabled and the stored model evaluations hold
\* no NaN.
C21_RecoveryTerminates ==
    RecoveryEntered
    => /\ Val(poly).outputs # None
       /\ NoNaN(Val(Val(poly).outputs))
       /\ Len(Val(Val(poly).outputs).vals) = Recovery.n - Recovery.k
       /\ Val(poly).subsampling_algorithm_name = None
       /\ ret.log.recoveries <= 1
       /\ ~ret.err
             => /\ ret.log.recoveries = 1
                /\ Recovery.stage = "refitted"
                /\ Val(poly).mesh = Some("user-defined")
                /\ Val(poly).method = Some("least-squares")
                /\ Val(poly)._model_evaluations = Val(poly).outputs
                /\ NoNaN(Val(Val(poly)._model_evaluations))
\* a call that met NaN among its evaluations, recovered and returned
C21_Witness ==
    /\ RecoveryEntered
    /\ ~ret.err
    /\ Recovery.k >= 1
    /\ ret.log.recoveries = 1
    /\ Val(poly).mesh = Some("user-defined")
    /\ Len(Val(Val(poly)._model_evaluations).vals) = Recovery.n - Recovery.k
====
